---- MODULE Spec2Model ----
(***************************************************************************)
(* Portfolio site: the Navigation component (mobile menu), the ContactPage *)
(* component (form state, simulated submission, reset timer) and the       *)
(* BlogsPage component (static post lists, unwired search and category     *)
(* buttons).  Each component's React state is a variable; each DOM event   *)
(* handler and each timer callback is an action.  Time is in milliseconds. *)
(***************************************************************************)
EXTENDS Integers, Sequences, FiniteSets, TLC

VARIABLES
    isOpen,        \* Navigation: useState(false)
    formData,      \* ContactPage: useState({name, email, subject, message})
    isSubmitting,  \* ContactPage: useState(false)
    isSubmitted,   \* ContactPage: useState(false)
    timers,        \* pending setTimeout registrations of ContactPage, oldest first
    searchValue,   \* BlogsPage: text held by the uncontrolled search <Input>
    event,         \* the DOM event or timer callback handled last
    twin,          \* a second ContactPage instance (used by PairSpec only)
    view           \* the render last computed from given data (used by ViewSpec only)

vars == <<isOpen, formData, isSubmitting, isSubmitted, timers, searchValue, event, twin, view>>

----------------------------------------------------------------------------
(* Bounds of the model *)

\* granularity of the clock
TickMs == 1000
\* how long past its delay a due timer callback may still be waiting to run
MaxLate == 1000

\* longest list of posts and longest list of tags a render is given
MaxPosts == 4
MaxTags == 4

(* Program constants *)

SubmitDelayShort == 2000 - 1000
SubmitDelay == 2000
ResetDelay == 3000
FeaturedTagLimit == 3
RecentTagLimit == 2

----------------------------------------------------------------------------
(* Input values.  A text value is a sequence of characters. *)

Values == { <<>>, <<"a">>, <<"a", "@", "b">> }
SearchTexts == { "", "ai" }
FieldNames == { "name", "email", "subject", "message" }

Ev(type, target, value) == [type |-> type, target |-> target, value |-> value]
NoValue == <<>>
NoView == [kind |-> "none", input |-> <<>>, arg |-> 0, output |-> <<>>]

----------------------------------------------------------------------------
(* Navigation *)

navItems ==
    << [href |-> "/",        label |-> "Home"],
       [href |-> "/contact", label |-> "Contact"],
       [href |-> "/blogs",   label |-> "Blogs"] >>

\* onClick of the mobile menu button: setIsOpen(!isOpen)
ToggleStuck(open) == TRUE
toggleMenu(open) == ~open

\* onClick of a link in the mobile panel: setIsOpen(false)
closeMenuToggles(open) == ~open
closeMenu(open) == FALSE

\* {isOpen && (<div> mobile navigation </div>)}
MobilePanelRendered(open) == open

\* {isOpen ? <X/> : <Menu/>}
ToggleIcon(open) == IF open THEN "X" ELSE "Menu"

----------------------------------------------------------------------------
(* ContactPage: state as a record, handlers as functions on it *)

InitialFormData ==
    [name |-> <<>>, email |-> <<>>, subject |-> <<>>, message |-> <<>>]

InitialContact ==
    [formData     |-> InitialFormData,
     isSubmitting |-> FALSE,
     isSubmitted  |-> FALSE,
     timers       |-> <<>>]

\* setTimeout(callback, delay): a new registration, nothing elapsed yet
setTimeout(queue, callback, delay) ==
    Append(queue, [callback |-> callback, delay |-> delay, elapsed |-> 0])

RemoveAt(s, i) == SubSeq(s, 1, i - 1) \o SubSeq(s, i + 1, Len(s))

\* a registration whose delay has passed: its callback may run
Due(t) == t.elapsed >= t.delay

\* setFormData((prev) => ({...prev, [name]: value}))
handleInputChangeStale(prev, name, value) == [InitialFormData EXCEPT ![name] = value]
handleInputChange(prev, name, value) == [prev EXCEPT ![name] = value]

\* onChange of every input: the handler touches formData alone
onChangeCancels(c, name, value) ==
    [c EXCEPT !.formData = handleInputChange(@, name, value),
              !.timers = <<>>]
onChange(c, name, value) ==
    [c EXCEPT !.formData = handleInputChange(@, name, value)]

\* handleSubmit up to the await: setIsSubmitting(true); setTimeout(resolve, 2000)
handleSubmit(c) ==
    [c EXCEPT !.isSubmitting = TRUE,
              !.timers = setTimeout(@, "resolve", SubmitDelay)]

\* handleSubmit after the await, run when registration i resolves the promise:
\* setIsSubmitting(false); setIsSubmitted(true); setTimeout(reset, 3000)
afterDelayFails(c, i) ==
    [c EXCEPT !.isSubmitting = FALSE,
              !.timers = RemoveAt(@, i)]
afterDelayChecksName(c, i) ==
    [c EXCEPT !.isSubmitting = FALSE,
              !.isSubmitted = (c.formData.name = <<"a">>),
              !.timers = setTimeout(RemoveAt(@, i), "reset", ResetDelay)]
afterDelayKeepsSubmitting(c, i) ==
    [c EXCEPT !.isSubmitted = TRUE,
              !.timers = setTimeout(RemoveAt(@, i), "reset", ResetDelay)]
afterDelay(c, i) ==
    [c EXCEPT !.isSubmitting = FALSE,
              !.isSubmitted = TRUE,
              !.timers = setTimeout(RemoveAt(@, i), "reset", ResetDelay)]

\* the reset callback: setIsSubmitted(false); setFormData({all empty})
resetFormKeepsMessage(c, i) ==
    [c EXCEPT !.isSubmitted = FALSE,
              !.formData = [InitialFormData EXCEPT !.message = c.formData.message],
              !.timers = RemoveAt(@, i)]
resetForm(c, i) ==
    [c EXCEPT !.isSubmitted = FALSE,
              !.formData = InitialFormData,
              !.timers = RemoveAt(@, i)]

\* the passage of d milliseconds, seen by every pending registration
elapse(queue, d) ==
    [i \in 1..Len(queue) |-> [queue[i] EXCEPT !.elapsed = @ + d]]

\* {isSubmitted ? <success message/> : <form onSubmit={handleSubmit}>}
FormRenderedAlways(c) == TRUE
FormRendered(c) == ~c.isSubmitted

\* <Button type="submit" disabled={isSubmitting}>
SubmitEnabledAlways(c) == TRUE
SubmitEnabled(c) == ~c.isSubmitting

\* constraint validation of the inputs: all four are `required`, and the
\* email input has type="email" (something before and after an "@")
ValidEmail(v) == \E i \in 2..(Len(v) - 1) : v[i] = "@"
FormValidAlways(fd) == TRUE
FormValid(fd) ==
    /\ \A n \in FieldNames : Len(fd[n]) > 0
    /\ ValidEmail(fd.email)

\* a submit event reaches handleSubmit
CanSubmit(c) == FormRendered(c) /\ SubmitEnabled(c) /\ FormValid(c.formData)

\* time may pass: something is pending and no callback is overdue by MaxLate
CanTick(c) ==
    /\ Len(c.timers) > 0
    /\ \A i \in 1..Len(c.timers) :
          c.timers[i].elapsed < c.timers[i].delay + MaxLate

Contact ==
    [formData |-> formData, isSubmitting |-> isSubmitting,
     isSubmitted |-> isSubmitted, timers |-> timers]

SetContact(c) ==
    /\ formData' = c.formData
    /\ isSubmitting' = c.isSubmitting
    /\ isSubmitted' = c.isSubmitted
    /\ timers' = c.timers

----------------------------------------------------------------------------
(* ContactPage: the contact information list *)

\* href: null (no text is a sequence holding it)
Null == << "null", "null" >>
\* an attribute given the value undefined is not rendered
Undefined == "undefined"

contactInfo ==
    << [label |-> "Email",
        href |-> <<"m", "a", "i", "l", "t", "o", ":", "n", "i", "h", "a", "l", "n", "i", "h", "a", "l", "8", "9", "5", "1", "@", "g", "m", "a", "i", "l", ".", "c", "o", "m">>],
       [label |-> "Phone",
        href |-> <<"t", "e", "l", ":", "+", "9", "1", "8", "9", "5", "1", "1", "0", "7", "0", "7", "2">>],
       [label |-> "Location",
        href |-> Null],
       [label |-> "GitHub",
        href |-> <<"h", "t", "t", "p", "s", ":", "/", "/", "g", "i", "t", "h", "u", "b", ".", "c", "o", "m", "/", "N", "i", "h", "a", "l", "h", "t">>],
       [label |-> "LinkedIn",
        href |-> <<"h", "t", "t", "p", "s", ":", "/", "/", "l", "i", "n", "k", "e", "d", "i", "n", ".", "c", "o", "m", "/", "i", "n", "/", "n", "i", "h", "a", "l", "-", "h", "-", "t">>] >>

\* String.prototype.startsWith
startsWith(str, prefix) ==
    /\ Len(str) >= Len(prefix)
    /\ SubSeq(str, 1, Len(prefix)) = prefix

\* null and the empty string are falsy
Truthy(href) == href # Null /\ href # <<>>

Http == <<"h", "t", "t", "p">>

\* {info.href ? <a href target rel>value</a> : <p>value</p>}
renderContactInfoAllBlank(info) ==
    IF Truthy(info.href)
    THEN [tag |-> "a", href |-> info.href, target |-> "_blank",
          rel |-> IF startsWith(info.href, Http)
                  THEN "noopener noreferrer" ELSE Undefined]
    ELSE [tag |-> "p", href |-> Undefined, target |-> Undefined, rel |-> Undefined]
renderContactInfo(info) ==
    IF Truthy(info.href)
    THEN [tag |-> "a", href |-> info.href,
          target |-> IF startsWith(info.href, Http) THEN "_blank" ELSE Undefined,
          rel |-> IF startsWith(info.href, Http)
                  THEN "noopener noreferrer" ELSE Undefined]
    ELSE [tag |-> "p", href |-> Undefined, target |-> Undefined, rel |-> Undefined]

----------------------------------------------------------------------------
(* BlogsPage *)

blogPosts ==
    << [id |-> 1, category |-> "AI/ML", featured |-> TRUE,
        publishDate |-> <<"2", "0", "2", "4", "-", "1", "2", "-", "1", "5">>,
        tags |-> << "TensorFlow", "PyTorch", "Machine Learning", "Scalability" >>],
       [id |-> 2, category |-> "Blockchain", featured |-> TRUE,
        publishDate |-> <<"2", "0", "2", "4", "-", "1", "2", "-", "1", "0">>,
        tags |-> << "Blockchain", "Web3.js", "Smart Contracts", "Ethereum" >>],
       [id |-> 3, category |-> "Web Development", featured |-> FALSE,
        publishDate |-> <<"2", "0", "2", "4", "-", "1", "2", "-", "0", "5">>,
        tags |-> << "Django", "React", "Full-Stack", "API Development" >>],
       [id |-> 4, category |-> "Data Science", featured |-> FALSE,
        publishDate |-> <<"2", "0", "2", "4", "-", "1", "1", "-", "2", "8">>,
        tags |-> << "Data Science", "ML Pipelines", "Feature Engineering", "Automation" >>],
       [id |-> 5, category |-> "AI/ML", featured |-> FALSE,
        publishDate |-> <<"2", "0", "2", "4", "-", "1", "1", "-", "2", "0">>,
        tags |-> << "Computer Vision", "Healthcare", "CNN", "Medical Imaging" >>],
       [id |-> 6, category |-> "Web Development", featured |-> FALSE,
        publishDate |-> <<"2", "0", "2", "4", "-", "1", "1", "-", "1", "5">>,
        tags |-> << "REST API", "Backend Development", "API Design", "FastAPI" >>] >>

categories == << "All", "AI/ML", "Web Development", "Blockchain", "Data Science" >>

IsFeatured(post) == post.featured
IsNotFeatured(post) == ~post.featured
MatchesClicked(post) ==
    /\ post.featured
    /\ event.type = "category" => event.target \in {"All", post.category}

\* posts.filter(...): the posts satisfying the test, in order
featuredOf(posts) == SelectSeq(posts, IsFeatured)
recentOfUnfiltered(posts) == posts
recentOf(posts) == SelectSeq(posts, IsNotFeatured)

featuredPostsFiltered == SelectSeq(blogPosts, MatchesClicked)
featuredPosts == featuredOf(blogPosts)
recentPosts == recentOf(blogPosts)

(* formatDate: new Date(dateString).toLocaleDateString("en-US", {...}).     *)
(* A time value is in minutes since 1970-01-01T00:00Z.                      *)

Digits == << "0", "1", "2", "3", "4", "5", "6", "7", "8", "9" >>
DigitValue(ch) == (CHOOSE k \in 1..10 : Digits[k] = ch) - 1

RECURSIVE ParseInt(_)
ParseInt(chs) ==
    IF chs = <<>> THEN 0
    ELSE 10 * ParseInt(SubSeq(chs, 1, Len(chs) - 1)) + DigitValue(chs[Len(chs)])

\* days since 1970-01-01 of a date of the proleptic Gregorian calendar
DaysFromCivil(y, m, d) ==
    LET yy  == IF m <= 2 THEN y - 1 ELSE y
        era == yy \div 400
        yoe == yy - era * 400
        mp  == IF m > 2 THEN m - 3 ELSE m + 9
        doy == (153 * mp + 2) \div 5 + d - 1
        doe == yoe * 365 + yoe \div 4 - yoe \div 100 + doy
    IN  era * 146097 + doe - 719468

\* the date of the proleptic Gregorian calendar z days after 1970-01-01
CivilFromDays(z) ==
    LET zz  == z + 719468
        era == zz \div 146097
        doe == zz - era * 146097
        yoe == (doe - doe \div 1460 + doe \div 36524 - doe \div 146096) \div 365
        doy == doe - (365 * yoe + yoe \div 4 - yoe \div 100)
        mp  == (5 * doy + 2) \div 153
        d   == doy - (153 * mp + 2) \div 5 + 1
        m   == IF mp < 10 THEN mp + 3 ELSE mp - 9
        y   == yoe + era * 400
    IN  [year |-> IF m <= 2 THEN y + 1 ELSE y, month |-> m, day |-> d]

\* new Date("YYYY-MM-DD"): a date-only string is midnight UTC of that day
parseDate(dateString) ==
    1440 * DaysFromCivil(ParseInt(SubSeq(dateString, 1, 4)),
                         ParseInt(SubSeq(dateString, 6, 7)),
                         ParseInt(SubSeq(dateString, 9, 10)))

MonthNames ==
    << "January", "February", "March", "April", "May", "June", "July",
       "August", "September", "October", "November", "December" >>

\* toLocaleDateString("en-US", {year: "numeric", month: "long", day: "numeric"})
\* in a time zone offset minutes east of UTC: the calendar date of the local time
toLocaleDateString(time, offset) ==
    LET local == CivilFromDays((time + offset) \div 1440)
    IN  [month |-> MonthNames[local.month], day |-> local.day, year |-> local.year]

formatDate(dateString, offset) == toLocaleDateString(parseDate(dateString), offset)

(* Tags of a card: post.tags.slice(0, 3) on a featured card,               *)
(* post.tags.slice(0, 2) on a recent card.                                 *)

Min(a, b) == IF a <= b THEN a ELSE b

\* Array.prototype.slice(start, end) for 0 <= start, end: both clamped to the length
slice(s, start, end) ==
    LET from == Min(start, Len(s))
        to   == Min(end, Len(s))
    IN  SubSeq(s, from + 1, to)

shownTagsSameLimit(tags, featured) == slice(tags, 0, RecentTagLimit)
shownTags(tags, featured) ==
    slice(tags, 0, IF featured THEN FeaturedTagLimit ELSE RecentTagLimit)

\* variant={category === "All" ? "default" : "outline"}
categoryVariant(category) == IF category = "All" THEN "default" ELSE "outline"

----------------------------------------------------------------------------
(* Initial state: every component freshly mounted *)

Init ==
    /\ isOpen = FALSE
    /\ formData = InitialFormData
    /\ isSubmitting = FALSE
    /\ isSubmitted = FALSE
    /\ timers = <<>>
    /\ searchValue = ""
    /\ event = Ev("mount", "", NoValue)
    /\ twin = InitialContact
    /\ view = NoView

contactVars == <<formData, isSubmitting, isSubmitted, timers>>

(* Navigation actions *)

ToggleMenu ==
    /\ isOpen' = toggleMenu(isOpen)
    /\ event' = Ev("toggle", "", NoValue)
    /\ UNCHANGED <<contactVars, searchValue, twin, view>>

ClickMobileLinkRemounts ==
    \E k \in 1..Len(navItems) :
        /\ MobilePanelRendered(isOpen)
        /\ isOpen' = closeMenu(isOpen)
        /\ formData' = InitialFormData
        /\ event' = Ev("link", navItems[k].href, NoValue)
        /\ UNCHANGED <<isSubmitting, isSubmitted, timers, searchValue, twin, view>>

ClickMobileLink ==
    \E k \in 1..Len(navItems) :
        /\ MobilePanelRendered(isOpen)
        /\ isOpen' = closeMenu(isOpen)
        /\ event' = Ev("link", navItems[k].href, NoValue)
        /\ UNCHANGED <<contactVars, searchValue, twin, view>>

(* ContactPage actions *)

ChangeInput ==
    \E n \in FieldNames, v \in Values :
        /\ FormRendered(Contact)
        /\ SetContact(onChange(Contact, n, v))
        /\ event' = Ev("change", n, v)
        /\ UNCHANGED <<isOpen, searchValue, twin, view>>

Submit ==
    /\ CanSubmit(Contact)
    /\ SetContact(handleSubmit(Contact))
    /\ event' = Ev("submit", "", NoValue)
    /\ UNCHANGED <<isOpen, searchValue, twin, view>>

Tick ==
    /\ CanTick(Contact)
    /\ timers' = elapse(timers, TickMs)
    /\ event' = Ev("tick", "", NoValue)
    /\ UNCHANGED <<isOpen, formData, isSubmitting, isSubmitted, searchValue, twin, view>>

Resolve ==
    \E i \in 1..Len(timers) :
        /\ timers[i].callback = "resolve"
        /\ Due(timers[i])
        /\ SetContact(afterDelay(Contact, i))
        /\ event' = Ev("resolve", "", NoValue)
        /\ UNCHANGED <<isOpen, searchValue, twin, view>>

Reset ==
    \E i \in 1..Len(timers) :
        /\ timers[i].callback = "reset"
        /\ Due(timers[i])
        /\ SetContact(resetForm(Contact, i))
        /\ event' = Ev("reset", "", NoValue)
        /\ UNCHANGED <<isOpen, searchValue, twin, view>>

(* BlogsPage actions: neither element has a handler *)

ClickCategory ==
    \E k \in 1..Len(categories) :
        /\ event' = Ev("category", categories[k], NoValue)
        /\ UNCHANGED <<isOpen, contactVars, searchValue, twin, view>>

TypeSearch ==
    \E s \in SearchTexts :
        /\ searchValue' = s
        /\ event' = Ev("search", s, NoValue)
        /\ UNCHANGED <<isOpen, contactVars, twin, view>>

Next ==
    \/ ToggleMenu
    \/ ClickMobileLink
    \/ ChangeInput
    \/ Submit
    \/ Tick
    \/ Resolve
    \/ Reset
    \/ ClickCategory
    \/ TypeSearch

Spec == Init /\ [][Next]_vars

\* the event loop runs every due callback, and time passes
FairSpec == Spec /\ WF_vars(Tick) /\ WF_vars(Resolve) /\ WF_vars(Reset)

----------------------------------------------------------------------------
(* Two ContactPage instances driven by the same submit and timer events,   *)
(* their fields edited independently: the first is the page's own state,   *)
(* the second is twin.  An instance that cannot take an event stays put.   *)

\* the oldest due registration of callback cb in c, 0 if there is none
DueIndex(c, cb) ==
    LET due == { i \in 1..Len(c.timers) :
                    c.timers[i].callback = cb /\ Due(c.timers[i]) }
    IN  IF due = {} THEN 0 ELSE CHOOSE i \in due : \A j \in due : i <= j

PairChange ==
    \E n \in FieldNames, v \in Values, w \in Values :
        /\ FormRendered(Contact)
        /\ SetContact(onChange(Contact, n, v))
        /\ twin' = IF FormRendered(twin) THEN onChange(twin, n, w) ELSE twin
        /\ event' = Ev("change", "", NoValue)
        /\ UNCHANGED <<isOpen, searchValue, view>>

PairSubmit ==
    /\ CanSubmit(Contact)
    /\ CanSubmit(twin)
    /\ SetContact(handleSubmit(Contact))
    /\ twin' = handleSubmit(twin)
    /\ event' = Ev("submit", "", NoValue)
    /\ UNCHANGED <<isOpen, searchValue, view>>

PairTick ==
    /\ CanTick(Contact)
    /\ timers' = elapse(timers, TickMs)
    /\ twin' = [twin EXCEPT !.timers = elapse(@, TickMs)]
    /\ event' = Ev("tick", "", NoValue)
    /\ UNCHANGED <<isOpen, formData, isSubmitting, isSubmitted, searchValue, view>>

PairResolve ==
    /\ DueIndex(Contact, "resolve") > 0
    /\ SetContact(afterDelay(Contact, DueIndex(Contact, "resolve")))
    /\ twin' = IF DueIndex(twin, "resolve") > 0
               THEN afterDelay(twin, DueIndex(twin, "resolve"))
               ELSE twin
    /\ event' = Ev("resolve", "", NoValue)
    /\ UNCHANGED <<isOpen, searchValue, view>>

PairReset ==
    /\ DueIndex(Contact, "reset") > 0
    /\ SetContact(resetForm(Contact, DueIndex(Contact, "reset")))
    /\ twin' = IF DueIndex(twin, "reset") > 0
               THEN resetForm(twin, DueIndex(twin, "reset"))
               ELSE twin
    /\ event' = Ev("reset", "", NoValue)
    /\ UNCHANGED <<isOpen, searchValue, view>>

PairNext ==
    \/ PairChange
    \/ PairSubmit
    \/ PairTick
    \/ PairResolve
    \/ PairReset

PairSpec == Init /\ [][PairNext]_vars

----------------------------------------------------------------------------
(* The render functions applied to given data: each action computes one    *)
(* render and records its input and output in view.                        *)

\* lists of posts: the page's own, and every list of up to MaxPosts posts
PostLists ==
    {blogPosts} \cup
    UNION { { [i \in 1..n |-> [id |-> i, featured |-> f[i]]] :
                f \in [1..n -> BOOLEAN] } : n \in 0..MaxPosts }

viewFrame == <<isOpen, contactVars, searchValue, event, twin>>

RenderPostLists ==
    \E posts \in PostLists :
        /\ view' = [kind |-> "lists", input |-> posts, arg |-> 0,
                    output |-> [featured |-> featuredOf(posts),
                                recent |-> recentOf(posts)]]
        /\ UNCHANGED viewFrame

\* date strings: the posts' publish dates and two first days of a month
DateStrings ==
    { blogPosts[i].publishDate : i \in 1..Len(blogPosts) } \cup
    { <<"2", "0", "2", "5", "-", "0", "1", "-", "0", "1">>,
      <<"2", "0", "2", "4", "-", "0", "3", "-", "0", "1">> }

\* time zone offsets of the runtime, minutes east of UTC: UTC-12:00 to UTC+14:00
Offsets == { 30 * k : k \in -24..28 }

RenderDate ==
    \E dateString \in DateStrings, offset \in Offsets :
        /\ view' = [kind |-> "date", input |-> dateString, arg |-> offset,
                    output |-> formatDate(dateString, offset)]
        /\ UNCHANGED viewFrame

\* lists of tags: the posts' own, and every list of up to MaxTags tags
TagNames == { "Django", "React", "CNN" }
TagLists ==
    { blogPosts[i].tags : i \in 1..Len(blogPosts) } \cup
    UNION { [1..n -> TagNames] : n \in 0..MaxTags }

RenderTags ==
    \E tags \in TagLists, featured \in BOOLEAN :
        /\ view' = [kind |-> "tags", input |-> tags, arg |-> featured,
                    output |-> shownTags(tags, featured)]
        /\ UNCHANGED viewFrame

RenderContactInfo ==
    \E k \in 1..Len(contactInfo) :
        /\ view' = [kind |-> "contact", input |-> contactInfo[k], arg |-> k,
                    output |-> renderContactInfo(contactInfo[k])]
        /\ UNCHANGED viewFrame

ViewNext ==
    \/ RenderPostLists
    \/ RenderDate
    \/ RenderTags
    \/ RenderContactInfo

ViewSpec == Init /\ [][ViewNext]_vars

----------------------------------------------------------------------------
(* Properties *)

\* the pending registrations of callback cb
Pending(cb) == { i \in 1..Len(timers) : timers[i].callback = cb }

ContactEvents == { "change", "submit", "tick", "resolve", "reset" }
NavigationEvents == { "toggle", "link" }
BlogEvents == { "category", "search" }
UserEvents == { "change", "toggle", "link", "category", "search" }

IdsOf(posts) == [i \in 1..Len(posts) |-> posts[i].id]

\* C1: every submission is eventually followed by the success state, and the
\* sending phase never ends in anything but success: while isSubmitting holds
\* its completion timer is pending, and the step that ends isSubmitting sets
\* isSubmitted.
C1_SubmitAlwaysSucceeds ==
    /\ (event.type = "submit") ~> isSubmitted
    /\ [](isSubmitting => Pending("resolve") # {})
    /\ [][isSubmitting /\ ~isSubmitting' => isSubmitted']_vars

C1_Witness ==
    /\ event.type = "resolve"
    /\ isSubmitted
    /\ formData # InitialFormData

\* C2: isSubmitted becomes true only by the completion callback of a submit,
\* run no earlier than 2000 ms after that submit; a submit starts the sending
\* phase with nothing elapsed; while the completion is pending isSubmitting is
\* true and isSubmitted false; the completion clears isSubmitting and sets
\* isSubmitted.
C2_SuccessAfterDelay ==
    /\ [][~isSubmitted /\ isSubmitted' =>
            /\ event'.type = "resolve"
            /\ isSubmitting
            /\ \E i \in Pending("resolve") : timers[i].elapsed >= 2000]_vars
    /\ [][event'.type = "submit" =>
            /\ isSubmitting' /\ ~isSubmitted'
            /\ \E i \in Pending("resolve")' : timers'[i].elapsed = 0]_vars
    /\ [](Pending("resolve") # {} => isSubmitting /\ ~isSubmitted)
    /\ [][event'.type = "resolve" => ~isSubmitting' /\ isSubmitted']_vars

C2_Witness ==
    /\ event.type = "resolve"
    /\ isSubmitted /\ ~isSubmitting
    /\ \E i \in Pending("reset") : timers[i].elapsed = 0

\* C3: whenever isSubmitted holds, the reset callback later runs, no earlier
\* than 3000 ms after it was registered, and leaves the form in its initial
\* state: both flags false and the four fields empty.
C3_ResetRestoresInitial ==
    /\ isSubmitted ~> (event.type = "reset" /\ ~isSubmitted)
    /\ [][event'.type = "reset" =>
            /\ \E i \in Pending("reset") : timers[i].elapsed >= 3000
            /\ ~isSubmitted' /\ ~isSubmitting'
            /\ formData' = InitialFormData]_vars

C3_Witness ==
    /\ event.type = "reset"
    /\ ~isSubmitted /\ ~isSubmitting
    /\ formData = InitialFormData
    /\ timers = <<>>

\* C4: no user action removes or alters a pending timer (only the passage of
\* time advances it and only its own callback removes it), and every submit
\* runs through to the reset whatever is interleaved.
C4_TimersNotCancellable ==
    /\ [][event'.type \in UserEvents =>
            /\ Len(timers') >= Len(timers)
            /\ \A i \in 1..Len(timers) : timers'[i] = timers[i]]_vars
    /\ [][Len(timers') < Len(timers) => event'.type \in {"resolve", "reset"}]_vars
    /\ (event.type = "submit") ~> (event.type = "reset")

C4_Witness ==
    /\ event.type \in {"change", "toggle"}
    /\ isSubmitting
    /\ \E i \in Pending("resolve") : timers[i].elapsed > 0

\* C5: two instances that receive the same submit and timer events and differ
\* only in what is typed into the fields show the same isSubmitting and
\* isSubmitted at every step and hold the same timers; a submit leaves the
\* form data where it is.
C5_FlagsIndependentOfFormData ==
    /\ [](/\ twin.isSubmitting = isSubmitting
          /\ twin.isSubmitted = isSubmitted
          /\ twin.timers = timers)
    /\ [][event'.type = "submit" =>
            formData' = formData /\ twin'.formData = twin.formData]_vars

C5_Witness ==
    /\ event.type = "resolve"
    /\ isSubmitted /\ twin.isSubmitted
    /\ \A n \in {"name", "subject", "message"} : formData[n] # twin.formData[n]

\* C6: isOpen is a boolean, false at first; every click on the menu button
\* negates it; the mobile panel is rendered exactly when it is true, and the
\* button shows X exactly when it is true and Menu otherwise.
C6_MenuToggle ==
    /\ isOpen = FALSE
    /\ [][event'.type = "toggle" => isOpen' = ~isOpen]_vars
    /\ [](/\ isOpen \in BOOLEAN
          /\ MobilePanelRendered(isOpen) <=> isOpen
          /\ ToggleIcon(isOpen) = "X" <=> isOpen
          /\ ToggleIcon(isOpen) = "Menu" <=> ~isOpen)

C6_Witness ==
    /\ event.type = "toggle"
    /\ isOpen
    /\ ToggleIcon(isOpen) = "X"

\* C7: whatever category buttons are clicked and whatever is typed into the
\* search box, the featured list and the recent list are the lists shown at
\* first, and "All" is the only button with the default variant.
C7_FiltersNotWired ==
    /\ [](/\ IdsOf(featuredPosts) = <<1, 2>>
          /\ IdsOf(recentPosts) = <<3, 4, 5, 6>>
          /\ { k \in 1..Len(categories) : categoryVariant(categories[k]) = "default" }
                = { k \in 1..Len(categories) : categories[k] = "All" })
    /\ [][event'.type \in BlogEvents =>
            featuredPosts' = featuredPosts /\ recentPosts' = recentPosts]_vars

C7_Witness ==
    /\ event.type = "category"
    /\ event.target = "Blockchain"
    /\ searchValue = "ai"

\* C8: a Navigation action leaves formData, isSubmitting, isSubmitted and the
\* timers unchanged, and a ContactPage action leaves isOpen unchanged.
C8_NoSharedState ==
    /\ [][event'.type \in NavigationEvents => UNCHANGED contactVars]_vars
    /\ [][event'.type \in ContactEvents => UNCHANGED isOpen]_vars

C8_Witness ==
    /\ event.type = "link"
    /\ ~isOpen
    /\ isSubmitting
    /\ formData # InitialFormData

\* C9: the reset callback runs only in a state where isSubmitted is true; as
\* long as a reset is pending the form is not rendered, so no field is edited
\* between the registration of a reset and its run.
C9_ResetNeverRacesEdits ==
    /\ [][event'.type = "reset" => isSubmitted]_vars
    /\ [](Pending("reset") # {} => isSubmitted /\ ~FormRendered(Contact))
    /\ [][event'.type = "change" => Pending("reset") = {}]_vars

C9_Witness ==
    /\ event.type = "tick"
    /\ isSubmitted
    /\ \E i \in Pending("reset") : Due(timers[i])

\* C10: a submit starts only when neither isSubmitting nor isSubmitted holds,
\* and at most one completion timer and at most one reset timer are pending.
C10_SingleSubmissionInFlight ==
    /\ [][event'.type = "submit" => ~isSubmitting /\ ~isSubmitted]_vars
    /\ [](/\ Cardinality(Pending("resolve")) <= 1
          /\ Cardinality(Pending("reset")) <= 1)

C10_Witness ==
    /\ event.type = "submit"
    /\ isSubmitting
    /\ Cardinality(Pending("resolve")) = 1

\* C11: isSubmitting and isSubmitted are never both true: the form is idle
\* (both false), sending (isSubmitting only) or showing success (isSubmitted
\* only).
C11_PhasesExclusive ==
    /\ isSubmitting \in BOOLEAN /\ isSubmitted \in BOOLEAN
    /\ ~(isSubmitting /\ isSubmitted)
    /\ <<isSubmitting, isSubmitted>> \in
          { <<FALSE, FALSE>>, <<TRUE, FALSE>>, <<FALSE, TRUE>> }

C11_Witness ==
    /\ event.type = "resolve"
    /\ isSubmitted /\ ~isSubmitting
    /\ Pending("reset") # {}

\* C12: a change of field n to value v sets formData[n] to v and leaves the
\* other three fields, isSubmitting, isSubmitted and the timers as they were,
\* so edits of different fields add up.
C12_InputChangeFrame ==
    [][event'.type = "change" =>
         /\ formData'[event'.target] = event'.value
         /\ \A n \in FieldNames \ {event'.target} : formData'[n] = formData[n]
         /\ isSubmitting' = isSubmitting
         /\ isSubmitted' = isSubmitted
         /\ timers' = timers]_vars

C12_Witness ==
    /\ event.type = "change"
    /\ event.target = "message"
    /\ event.value = <<"a">>
    /\ formData.name = <<"a">>
    /\ formData.email = <<"a", "@", "b">>
    /\ formData.message = <<"a">>

\* C13: handleSubmit starts only from a form whose name, email, subject and
\* message are all non-empty; isSubmitting is never entered from a state with
\* an empty field.
C13_SubmitNeedsAllFields ==
    /\ [][event'.type = "submit" =>
            \A n \in FieldNames : formData[n] # <<>>]_vars
    /\ [][~isSubmitting /\ isSubmitting' =>
            \A n \in FieldNames : formData[n] # <<>> /\ formData'[n] # <<>>]_vars

C13_Witness ==
    /\ event.type = "submit"
    /\ isSubmitting
    /\ \A n \in FieldNames : formData[n] # <<>>

\* C14: a click on any of the three links of the mobile panel leaves isOpen
\* false; the handler yields false from either value of isOpen, so applying
\* it twice is the same as applying it once, which is not so for the toggle.
C14_MobileLinkClosesMenu ==
    /\ [][event'.type = "link" =>
            /\ event'.target \in { navItems[k].href : k \in 1..Len(navItems) }
            /\ isOpen' = FALSE]_vars
    /\ [](/\ closeMenu(isOpen) = FALSE
          /\ closeMenu(closeMenu(isOpen)) = closeMenu(isOpen)
          /\ toggleMenu(toggleMenu(isOpen)) # toggleMenu(isOpen))
    /\ Len(navItems) = 3

C14_Witness ==
    /\ event.type = "link"
    /\ event.target = "/blogs"
    /\ ~isOpen

\* the k-th smallest element of a set of numbers
Nth(S, k) == CHOOSE i \in S : Cardinality({ j \in S : j < i }) = k - 1

\* C15: the featured list and the recent list partition the posts: the
\* featured list is the posts with featured = true and the recent list the
\* posts with featured = false, each in the order of the posts, and every
\* post is in exactly one of the two lists, once.
C15_ListsPartitionPosts ==
    view.kind = "lists" =>
        LET posts == view.input
            F == view.output.featured
            R == view.output.recent
            idxF == { i \in 1..Len(posts) : posts[i].featured = TRUE }
            idxR == { i \in 1..Len(posts) : posts[i].featured = FALSE }
        IN  /\ Len(F) = Cardinality(idxF)
            /\ Len(R) = Cardinality(idxR)
            /\ \A k \in 1..Len(F) : F[k] = posts[Nth(idxF, k)]
            /\ \A k \in 1..Len(R) : R[k] = posts[Nth(idxR, k)]
            /\ Len(F) + Len(R) = Len(posts)
            /\ \A i \in 1..Len(posts) :
                  Cardinality({ k \in 1..Len(F) : F[k].id = posts[i].id })
                    + Cardinality({ k \in 1..Len(R) : R[k].id = posts[i].id }) = 1

C15_Witness ==
    /\ view.kind = "lists"
    /\ view.input = blogPosts
    /\ IdsOf(view.output.featured) = <<1, 2>>
    /\ IdsOf(view.output.recent) = <<3, 4, 5, 6>>

\* the calendar date a date string names, as formatDate would print it
DateNamed(dateString) ==
    [month |-> MonthNames[ParseInt(SubSeq(dateString, 6, 7))],
     day   |-> ParseInt(SubSeq(dateString, 9, 10)),
     year  |-> ParseInt(SubSeq(dateString, 1, 4))]

\* C16: the date formatDate shows is the year, month and day of the date
\* string it is given, whatever the time zone offset.
C16_DateShownIsPublishDate ==
    view.kind = "date" => view.output = DateNamed(view.input)

\* C17: a featured card shows the first min(3, n) tags of its post and a
\* recent card the first min(2, n), in the post's order, n being the number
\* of tags of the post; every tag shown is a tag of the post.
C17_TagsShown ==
    view.kind = "tags" =>
        LET tags == view.input
            shown == view.output
            limit == IF view.arg = TRUE THEN 3 ELSE 2
        IN  /\ Len(shown) = (IF Len(tags) < limit THEN Len(tags) ELSE limit)
            /\ \A k \in 1..Len(shown) : shown[k] = tags[k]
            /\ \A k \in 1..Len(shown) : \E j \in 1..Len(tags) : shown[k] = tags[j]

C17_Witness ==
    /\ view.kind = "tags"
    /\ view.arg = FALSE
    /\ Len(view.input) = 1
    /\ view.output = view.input

\* C18: an entry of contactInfo is rendered as a link exactly when its href
\* is not null; the link has target _blank and rel "noopener noreferrer"
\* exactly when its href begins with "http", and neither otherwise (mailto:,
\* tel:); so a link with target _blank always carries noopener noreferrer.
C18_ContactLinks ==
    view.kind = "contact" =>
        LET href == view.input.href
            out == view.output
            http == /\ href # Null
                    /\ Len(href) >= 4
                    /\ <<href[1], href[2], href[3], href[4]>> = <<"h", "t", "t", "p">>
        IN  /\ (out.tag = "a") <=> (href # Null)
            /\ out.tag \in {"a", "p"}
            /\ out.tag = "a" => out.href = href
            /\ (out.target = "_blank") <=> http
            /\ (out.rel = "noopener noreferrer") <=> http
            /\ ~http => out.target = Undefined /\ out.rel = Undefined
            /\ out.target = "_blank" => out.rel = "noopener noreferrer"

C18_Witness ==
    /\ view.kind = "contact"
    /\ view.input.label = "GitHub"
    /\ view.output.tag = "a"
    /\ view.output.target = "_blank"
    /\ view.output.rel = "noopener noreferrer"

====
